---- MODULE Spec2Model ----
(***************************************************************************)
(* Model of the two terminal pickers of kitty-theme-selector:              *)
(*   src/ssh_host_selector.py  (parse_ssh_config, SSHHostSelectorApp)      *)
(*   src/theme_selector.py     (collect_themes, ThemeSelectorApp)          *)
(* Python str values are TLA+ strings; a character is a string of length   *)
(* one, taken with SubSeq.  Python None is the empty string where the code *)
(* only ever tests the value for truth (current_user, current_theme).      *)
(***************************************************************************)
EXTENDS Integers, Sequences, FiniteSets, TLC

VARIABLES
    app,             \* "ssh" (SSHHostSelectorApp) or "theme" (ThemeSelectorApp)
    use_kitten_ssh,  \* SSHHostSelectorApp.use_kitten_ssh
    source,          \* the configuration source found on disk at startup
    phase,           \* "init", "collected", "parsed", "running", "exited", "replaced", "crashed"
    entries,         \* parse_ssh_config's local list of candidates (before dedupe)
    hosts,           \* SSHHostSelectorApp.hosts
    themes,          \* ThemeSelectorApp.themes
    filtered,        \* self._filtered
    search_display,  \* the #search Input's display flag
    search_value,    \* the #search Input's text (event.value of the last change)
    search_focus,    \* whether the #search Input holds the input focus
    status,          \* the #status Static's text
    notifications,   \* notifications on screen, oldest first
    rendered,        \* the labels of the ListView's rows
    workers,         \* refresh workers scheduled by run_worker and not finished
    last_event,      \* the handler that ran last
    event_index,     \* event.index when the last handler was on_list_view_selected, else -1
    attempts,        \* the external invocations the last handler made, in order
    result           \* what the launcher of the last handler did

vars == <<app, use_kitten_ssh, source, phase, entries, hosts, themes, filtered,
          search_display, search_value, search_focus, status, notifications, rendered,
          workers, last_event, event_index, attempts, result>>

None == ""

(***************************************************************************)
(* Python str operations                                                   *)
(***************************************************************************)

\* The characters used, in code-point order ("A" is at 12, "_" at 38, "a" at 39).
Ascii == "\t\n #*-./:=@ABCDEFGHIJKLMNOPQRSTUVWXYZ_abcdefghijklmnopqrstuvwxyz"

CharAt(s, i) == SubSeq(s, i, i)

Chars == { CharAt(Ascii, i) : i \in 1..Len(Ascii) }

\* ord(c), up to the gaps between the characters used.
OrdTable == [c \in Chars |-> CHOOSE i \in 1..Len(Ascii) : CharAt(Ascii, i) = c]

Ord(c) == OrdTable[c]

IsSpace(c) == c \in {" ", "\t", "\n"}

\* c.lower()
LowerTable ==
    [c \in Chars |->
        IF OrdTable[c] >= OrdTable["A"] /\ OrdTable[c] <= OrdTable["Z"]
        THEN CharAt(Ascii, OrdTable[c] + (OrdTable["a"] - OrdTable["A"]))
        ELSE c]

LowerChar(c) == LowerTable[c]

RECURSIVE lower(_)
lower(s) ==
    IF s = "" THEN ""
    ELSE LowerChar(CharAt(s, 1)) \o lower(SubSeq(s, 2, Len(s)))

RECURSIVE lstrip(_)
lstrip(s) ==
    IF s # "" /\ IsSpace(CharAt(s, 1)) THEN lstrip(SubSeq(s, 2, Len(s))) ELSE s

RECURSIVE rstrip(_)
rstrip(s) ==
    IF s # "" /\ IsSpace(CharAt(s, Len(s))) THEN rstrip(SubSeq(s, 1, Len(s) - 1)) ELSE s

strip(s) == rstrip(lstrip(s))

startswith(s, prefix) ==
    Len(s) >= Len(prefix) /\ SubSeq(s, 1, Len(prefix)) = prefix

\* Python's  sub in s
contains(s, sub) ==
    \E i \in 0..(Len(s) - Len(sub)) : SubSeq(s, i + 1, i + Len(sub)) = sub

\* Length of the leading run of non-whitespace characters of s.
RECURSIVE WordLen(_)
WordLen(s) ==
    IF s = "" \/ IsSpace(CharAt(s, 1)) THEN 0
    ELSE 1 + WordLen(SubSeq(s, 2, Len(s)))

\* s.split(): the whitespace-separated words of s.
RECURSIVE split(_)
split(s) ==
    LET t == lstrip(s)
        n == WordLen(t)
    IN  IF t = "" THEN <<>>
        ELSE <<SubSeq(t, 1, n)>> \o split(SubSeq(t, n + 1, Len(t)))

\* s.split(None, 1): the first word and the rest after the whitespace run.
split1(s) ==
    LET t == lstrip(s)
        n == WordLen(t)
        r == lstrip(SubSeq(t, n + 1, Len(t)))
    IN  IF t = "" THEN <<>>
        ELSE IF r = "" THEN <<SubSeq(t, 1, n)>>
        ELSE <<SubSeq(t, 1, n), r>>

\* Index of the first occurrence of the character sep in s, 0 when absent.
find(s, sep) ==
    IF \E i \in 1..Len(s) : CharAt(s, i) = sep
    THEN CHOOSE i \in 1..Len(s) :
            /\ CharAt(s, i) = sep
            /\ \A j \in 1..(i - 1) : CharAt(s, j) # sep
    ELSE 0

\* s.split(sep, 1)[1]: what follows the first sep (sep occurs in s).
after_sep(s, sep) == SubSeq(s, find(s, sep) + 1, Len(s))

\* text.splitlines() for "\n" line ends.
RECURSIVE splitlines(_)
splitlines(text) ==
    IF text = "" THEN <<>>
    ELSE LET n == find(text, "\n")
         IN  IF n = 0 THEN <<text>>
             ELSE <<SubSeq(text, 1, n - 1)>> \o splitlines(SubSeq(text, n + 1, Len(text)))

\* Python's  a < b  on str: by code points, a proper prefix is smaller.
RECURSIVE StrLess(_, _)
StrLess(a, b) ==
    IF b = "" THEN FALSE
    ELSE IF a = "" THEN TRUE
    ELSE IF CharAt(a, 1) # CharAt(b, 1) THEN Ord(CharAt(a, 1)) < Ord(CharAt(b, 1))
    ELSE StrLess(SubSeq(a, 2, Len(a)), SubSeq(b, 2, Len(b)))

(***************************************************************************)
(* parse_ssh_config (src/ssh_host_selector.py)                             *)
(* An entry is the tuple <<display, host_alias, theme>>.                   *)
(***************************************************************************)

\* The loop's locals before the first line.
ParseStart ==
    [current_hosts |-> <<>>, current_user |-> None, current_theme |-> None,
     entries |-> <<>>]

\* The candidates of the block held in st: one per alias that is not "*".
RECURSIVE block_entries(_, _, _)
block_entries(current_hosts, current_user, current_theme) ==
    IF current_hosts = <<>> THEN <<>>
    ELSE LET alias == Head(current_hosts)
             display == IF current_user # None
                        THEN current_user \o "@" \o alias
                        ELSE alias
             rest == block_entries(Tail(current_hosts), current_user, current_theme)
         IN  IF alias # "" /\ alias # "*"
             THEN <<<<display, alias, current_theme>>>> \o rest
             ELSE rest

\* The theme a comment line sets, None when it sets none.
comment_theme(line) ==
    LET rest == strip(SubSeq(line, 2, Len(line)))
        rlower == lower(rest)
    IN  IF startswith(rlower, "kitty theme:") \/ startswith(rlower, "kitty theme=")
        THEN LET sep == IF contains(rest, ":") THEN ":" ELSE "="
             IN  strip(after_sep(rest, sep))
        ELSE None

\* One iteration of the loop over text.splitlines().
parse_line(st, raw_line) ==
    LET line == strip(raw_line)
    IN  IF startswith(lower(line), "host ")
        THEN LET parts == split1(line)
             IN  [current_hosts |-> IF Len(parts) > 1 THEN split(parts[2]) ELSE <<>>,
                  current_user |-> None,
                  current_theme |-> None,
                  entries |-> st.entries \o
                      block_entries(st.current_hosts, st.current_user, st.current_theme)]
        ELSE IF line = "" THEN st
        ELSE IF startswith(line, "#")
        THEN LET value == comment_theme(line)
             IN  IF value # "" THEN [st EXCEPT !.current_theme = value] ELSE st
        ELSE LET key_value == split1(line)
             IN  IF Len(key_value) >= 2 /\ lower(key_value[1]) = "user"
                 THEN [st EXCEPT !.current_user = strip(key_value[2])]
                 ELSE st

RECURSIVE parse_lines(_, _)
parse_lines(st, lines) ==
    IF lines = <<>> THEN st
    ELSE parse_lines(parse_line(st, Head(lines)), Tail(lines))

\* The candidate list when the loop and the flush of the last block are done.
parse_entries(text) ==
    LET st == parse_lines(ParseStart, splitlines(text))
    IN  st.entries \o
        block_entries(st.current_hosts, st.current_user, st.current_theme)

\* dedupe as it would be if a later block overwrote an earlier one: the last
\* occurrence of an alias is kept.
RECURSIVE dedupe_keep_last(_, _)
dedupe_keep_last(list, seen) ==
    IF list = <<>> THEN <<>>
    ELSE LET e == Head(list)
             later == \E k \in 2..Len(list) : list[k][2] = e[2]
         IN  IF later THEN dedupe_keep_last(Tail(list), seen)
             ELSE <<e>> \o dedupe_keep_last(Tail(list), seen)

\* Dedupe by alias, keep first occurrence.
RECURSIVE dedupe(_, _)
dedupe(list, seen) ==
    IF list = <<>> THEN <<>>
    ELSE LET e == Head(list)
         IN  IF e[2] \notin seen
             THEN <<e>> \o dedupe(Tail(list), seen \cup {e[2]})
             ELSE dedupe(Tail(list), seen)

\* host_key_less as it would be with the key  x[0].lower()  alone.
host_key_less_no_alias(x, y) == StrLess(lower(x[1]), lower(y[1]))

\* key=lambda x: (x[0].lower(), x[1]), compared as Python compares tuples.
host_key_less(x, y) ==
    \/ StrLess(lower(x[1]), lower(y[1]))
    \/ lower(x[1]) = lower(y[1]) /\ StrLess(x[2], y[2])

\* list.sort is stable: x goes behind every element whose key is not greater.
RECURSIVE insert_host(_, _)
insert_host(sorted, x) ==
    IF sorted = <<>> THEN <<x>>
    ELSE IF host_key_less(x, Head(sorted)) THEN <<x>> \o sorted
    ELSE <<Head(sorted)>> \o insert_host(Tail(sorted), x)

RECURSIVE sort_hosts(_)
sort_hosts(list) ==
    IF list = <<>> THEN <<>>
    ELSE insert_host(sort_hosts(SubSeq(list, 1, Len(list) - 1)), list[Len(list)])

unique_sorted(candidates) == sort_hosts(dedupe(candidates, {}))

\* src is what config_path names: no file, a file that cannot be read, or a text.
parse_ssh_config(src) ==
    IF src.kind # "file" THEN <<>>
    ELSE unique_sorted(parse_entries(src.text))

(***************************************************************************)
(* collect_themes (src/theme_selector.py)                                  *)
(* A Path is the sequence of its parts; config_dir is ConfigDir.  A theme  *)
(* is the tuple <<display, path>>.                                         *)
(***************************************************************************)

ConfigDir == <<"/", "r">>

\* str(path) of an absolute path.
RECURSIVE join_parts(_)
join_parts(parts) ==
    IF parts = <<>> THEN ""
    ELSE IF Len(parts) = 1 THEN parts[1]
    ELSE parts[1] \o "/" \o join_parts(Tail(parts))

path_str(path) ==
    IF path # <<>> /\ path[1] = "/" THEN "/" \o join_parts(Tail(path))
    ELSE join_parts(path)

\* Index of the last "." of name, 0 when there is none.
rfind_dot(name) ==
    IF \E i \in 1..Len(name) : CharAt(name, i) = "."
    THEN CHOOSE i \in 1..Len(name) :
            /\ CharAt(name, i) = "."
            /\ \A j \in (i + 1)..Len(name) : CharAt(name, j) # "."
    ELSE 0

\* path.stem: the final part without its last suffix.
path_stem(path) ==
    LET name == path[Len(path)]
        i == rfind_dot(name)
    IN  IF i > 1 /\ i < Len(name) THEN SubSeq(name, 1, i - 1) ELSE name

\* path_less as it would be if the paths were compared as strings.
path_less_as_strings(p, q) == StrLess(path_str(p), path_str(q))

\* Path.__lt__: the parts compared as tuples of str.
RECURSIVE path_less(_, _)
path_less(p, q) ==
    IF q = <<>> THEN FALSE
    ELSE IF p = <<>> THEN TRUE
    ELSE IF p[1] # q[1] THEN StrLess(p[1], q[1])
    ELSE path_less(Tail(p), Tail(q))

\* sorted(config_dir.rglob("*.conf")) for the set of files found.
RECURSIVE sorted_paths(_)
sorted_paths(paths) ==
    IF paths = {} THEN <<>>
    ELSE LET m == CHOOSE p \in paths : \A q \in paths \ {p} : path_less(p, q)
         IN  <<m>> \o sorted_paths(paths \ {m})

\* The label of a file under config_dir (relative_to cannot fail for it).
theme_display(path) ==
    LET rel == SubSeq(path, Len(ConfigDir) + 1, Len(path))
        stem == path_stem(path)
    IN  IF Len(rel) > 1
        THEN join_parts(SubSeq(rel, 1, Len(rel) - 1) \o <<stem>>)
        ELSE stem

\* The loop over the sorted paths: first file of a stem wins.
RECURSIVE collect_loop(_, _)
collect_loop(paths, seen_stems) ==
    IF paths = <<>> THEN <<>>
    ELSE LET path == Head(paths)
             stem == path_stem(path)
         IN  IF stem \in seen_stems THEN collect_loop(Tail(paths), seen_stems)
             ELSE <<<<theme_display(path), path>>>> \o
                  collect_loop(Tail(paths), seen_stems \cup {stem})

\* key=lambda t: t[0].lower()
theme_key_less(x, y) == StrLess(lower(x[1]), lower(y[1]))

RECURSIVE insert_theme(_, _)
insert_theme(sorted, x) ==
    IF sorted = <<>> THEN <<x>>
    ELSE IF theme_key_less(x, Head(sorted)) THEN <<x>> \o sorted
    ELSE <<Head(sorted)>> \o insert_theme(Tail(sorted), x)

RECURSIVE sort_themes(_)
sort_themes(list) ==
    IF list = <<>> THEN <<>>
    ELSE insert_theme(sort_themes(SubSeq(list, 1, Len(list) - 1)), list[Len(list)])

\* src is what config_dir names: no directory, or the set of *.conf files below it.
collect_themes(src) ==
    IF src.kind # "dir" THEN <<>>
    ELSE sort_themes(collect_loop(sorted_paths(src.files), {}))

(***************************************************************************)
(* Inputs of the parsers                                                   *)
(***************************************************************************)

MaxLines == 3
MaxFiles == 3

\* The lines a configuration text is made of.
Lines ==
    { "Host a b", "HOST b * A", "Host *", "Host\tb", "Host\t* b",
      "  User r", "user\tR",
      "# kitty theme: d", "#Kitty Theme=e:f", "# kitty theme=g", "# kitty theme:",
      "# kitty theme: h=i",
      "", "HostName x" }

RECURSIVE join_lines(_)
join_lines(ls) ==
    IF ls = <<>> THEN "" ELSE Head(ls) \o "\n" \o join_lines(Tail(ls))

ConfigTexts ==
    { join_lines(ls) : ls \in UNION { [1..n -> Lines] : n \in 0..MaxLines } }

ConfigSources ==
    { [kind |-> "missing"], [kind |-> "unreadable"] } \cup
    { [kind |-> "file", text |-> t] : t \in ConfigTexts }

\* The *.conf files a theme directory may hold, relative to config_dir.
Files ==
    { <<"one.conf">>, <<"a", "one.conf">>, <<"a-b", "one.conf">>, <<"b", "two.conf">>,
      <<"Dark.conf">>, <<"dark.conf">>, <<"a", "x.conf">>, <<"A", "X.conf">> }

ThemeSources ==
    { [kind |-> "nodir"] } \cup
    { [kind |-> "dir", files |-> { ConfigDir \o f : f \in fs }] :
        fs \in { S \in SUBSET Files : Cardinality(S) <= MaxFiles } }

(***************************************************************************)
(* The launchers                                                           *)
(* Every external call of a launcher gets its outcome from env, in call    *)
(* order.  subprocess.run ends with exit status 0 ("exit0"), with another  *)
(* status ("nonzero"), or raises FileNotFoundError, TimeoutExpired or      *)
(* another OSError (PermissionError for a file that may not be executed).  *)
(* os.execvp replaces the process image ("replaced") or raises.            *)
(***************************************************************************)

RunOutcomes == {"exit0", "nonzero", "FileNotFoundError", "TimeoutExpired", "OSError"}
ExecOutcomes == {"replaced", "FileNotFoundError", "OSError"}

Call(fn, argv, outcome) == [fn |-> fn, argv |-> argv, outcome |-> outcome]

\* A launcher's run: the calls made, what came back ("True", "False", "replaced"
\* when the image was replaced, "raised" when an exception left the launcher) and
\* the notifications the launcher itself raised.
Launch(calls, ret, notes) == [attempts |-> calls, ret |-> ret, notes |-> notes]

Note(message, severity) == [message |-> message, severity |-> severity]

\* connect_kitten as it would be if a timeout of the new-tab launch ended the
\* chain, as the timeout of set-colors does in _apply_theme.
connect_kitten_timeout_ends(host_alias, theme, env) ==
    LET ssh_argv == <<"kitten", "ssh">> \o
                    (IF theme # None THEN <<"--kitten", "color_scheme=" \o theme>> ELSE <<>>) \o
                    <<host_alias>>
        c1 == Call("subprocess.run",
                   <<"kitten", "@", "launch", "--type=tab", "--cwd", "current">> \o ssh_argv,
                   env[1])
        c2 == Call("os.execvp", ssh_argv, env[2])
        c3 == Call("os.execvp", <<"ssh", host_alias>>, env[3])
    IN  IF env[1] = "exit0" THEN Launch(<<c1>>, "True", <<>>)
        ELSE IF env[1] = "OSError" THEN Launch(<<c1>>, "raised", <<>>)
        ELSE IF env[1] = "TimeoutExpired" THEN Launch(<<c1>>, "False", <<>>)
        ELSE IF env[2] = "replaced" THEN Launch(<<c1, c2>>, "replaced", <<>>)
        ELSE IF env[2] = "OSError" THEN Launch(<<c1, c2>>, "raised", <<>>)
        ELSE IF env[3] = "replaced" THEN Launch(<<c1, c2, c3>>, "replaced", <<>>)
        ELSE IF env[3] = "OSError" THEN Launch(<<c1, c2, c3>>, "raised", <<>>)
        ELSE Launch(<<c1, c2, c3>>, "False", <<>>)

\* connect_kitten as it would be if the tab were opened without the
\* color-scheme option.
connect_kitten_tab_unthemed(host_alias, theme, env) ==
    LET ssh_argv == <<"kitten", "ssh">> \o
                    (IF theme # None THEN <<"--kitten", "color_scheme=" \o theme>> ELSE <<>>) \o
                    <<host_alias>>
        c1 == Call("subprocess.run",
                   <<"kitten", "@", "launch", "--type=tab", "--cwd", "current",
                     "kitten", "ssh", host_alias>>,
                   env[1])
        c2 == Call("os.execvp", ssh_argv, env[2])
        c3 == Call("os.execvp", <<"ssh", host_alias>>, env[3])
    IN  IF env[1] = "exit0" THEN Launch(<<c1>>, "True", <<>>)
        ELSE IF env[1] = "OSError" THEN Launch(<<c1>>, "raised", <<>>)
        ELSE IF env[2] = "replaced" THEN Launch(<<c1, c2>>, "replaced", <<>>)
        ELSE IF env[2] = "OSError" THEN Launch(<<c1, c2>>, "raised", <<>>)
        ELSE IF env[3] = "replaced" THEN Launch(<<c1, c2, c3>>, "replaced", <<>>)
        ELSE IF env[3] = "OSError" THEN Launch(<<c1, c2, c3>>, "raised", <<>>)
        ELSE Launch(<<c1, c2, c3>>, "False", <<>>)

\* SSHHostSelectorApp._connect, the branch  if self.use_kitten_ssh
connect_kitten(host_alias, theme, env) ==
    LET ssh_argv == <<"kitten", "ssh">> \o
                    (IF theme # None THEN <<"--kitten", "color_scheme=" \o theme>> ELSE <<>>) \o
                    <<host_alias>>
        c1 == Call("subprocess.run",
                   <<"kitten", "@", "launch", "--type=tab", "--cwd", "current">> \o ssh_argv,
                   env[1])
        c2 == Call("os.execvp", ssh_argv, env[2])
        c3 == Call("os.execvp", <<"ssh", host_alias>>, env[3])
    IN  IF env[1] = "exit0" THEN Launch(<<c1>>, "True", <<>>)
        ELSE IF env[1] = "OSError" THEN Launch(<<c1>>, "raised", <<>>)
        ELSE IF env[2] = "replaced" THEN Launch(<<c1, c2>>, "replaced", <<>>)
        ELSE IF env[2] = "OSError" THEN Launch(<<c1, c2>>, "raised", <<>>)
        ELSE IF env[3] = "replaced" THEN Launch(<<c1, c2, c3>>, "replaced", <<>>)
        ELSE IF env[3] = "OSError" THEN Launch(<<c1, c2, c3>>, "raised", <<>>)
        ELSE Launch(<<c1, c2, c3>>, "False", <<>>)

\* SSHHostSelectorApp._connect, the branch  else  (plain ssh)
connect_plain(host_alias, env) ==
    LET c1 == Call("subprocess.run",
                   <<"kitten", "@", "launch", "--type=tab", "--cwd", "current",
                     "ssh", host_alias>>,
                   env[1])
        c2 == Call("os.execvp", <<"ssh", host_alias>>, env[2])
    IN  IF env[1] = "exit0" THEN Launch(<<c1>>, "True", <<>>)
        ELSE IF env[1] = "OSError" THEN Launch(<<c1>>, "raised", <<>>)
        ELSE IF env[2] = "replaced" THEN Launch(<<c1, c2>>, "replaced", <<>>)
        ELSE IF env[2] = "OSError" THEN Launch(<<c1, c2>>, "raised", <<>>)
        ELSE Launch(<<c1, c2>>, "False", <<>>)

_connect(kitten_ssh, host_alias, theme, env) ==
    IF kitten_ssh THEN connect_kitten(host_alias, theme, env)
    ELSE connect_plain(host_alias, env)

\* What a failed set-colors leaves in last_err: the process wrote nothing and
\* ended with status 1.
ExitText == "exit 1"

TimeoutNote ==
    Note("Timed out waiting for kitty (try again or increase timeout)", "error")

\* apply_loop as it would be if TimeoutExpired were handled like
\* FileNotFoundError: the loop goes on and the timeout message is kept for the end.
RECURSIVE apply_loop_timeout_continues(_, _, _, _, _)
apply_loop_timeout_continues(cmds, k, env, done, last_err) ==
    IF k > Len(cmds)
    THEN Launch(done, "False",
                <<Note(IF last_err # None THEN last_err
                       ELSE "Neither kitten nor kitty found in PATH", "error")>>)
    ELSE LET c == Call("subprocess.run", cmds[k], env[k])
         IN  IF env[k] = "exit0" THEN Launch(Append(done, c), "True", <<>>)
             ELSE IF env[k] = "nonzero"
             THEN apply_loop_timeout_continues(cmds, k + 1, env, Append(done, c), ExitText)
             ELSE IF env[k] = "FileNotFoundError"
             THEN apply_loop_timeout_continues(cmds, k + 1, env, Append(done, c), last_err)
             ELSE IF env[k] = "TimeoutExpired"
             THEN apply_loop_timeout_continues(cmds, k + 1, env, Append(done, c),
                                               TimeoutNote.message)
             ELSE Launch(Append(done, c), "raised", <<>>)

\* The loop of _apply_theme from its k-th command on; done holds the calls made.
RECURSIVE apply_loop(_, _, _, _, _)
apply_loop(cmds, k, env, done, last_err) ==
    IF k > Len(cmds)
    THEN Launch(done, "False",
                <<Note(IF last_err # None THEN last_err
                       ELSE "Neither kitten nor kitty found in PATH", "error")>>)
    ELSE LET c == Call("subprocess.run", cmds[k], env[k])
         IN  IF env[k] = "exit0" THEN Launch(Append(done, c), "True", <<>>)
             ELSE IF env[k] = "nonzero"
             THEN apply_loop(cmds, k + 1, env, Append(done, c), ExitText)
             ELSE IF env[k] = "FileNotFoundError"
             THEN apply_loop(cmds, k + 1, env, Append(done, c), last_err)
             ELSE IF env[k] = "TimeoutExpired"
             THEN Launch(Append(done, c), "False", <<TimeoutNote>>)
             ELSE Launch(Append(done, c), "raised", <<>>)

\* ThemeSelectorApp._apply_theme
_apply_theme(path, display, env) ==
    apply_loop(<< <<"kitten", "@", "set-colors", "-a", path_str(path)>>,
                  <<"kitty", "@", "set-colors", "-a", path_str(path)>> >>,
               1, env, <<>>, None)

\* The outcomes the environment may give the calls of one launch.
ConnectEnvs(kitten_ssh) ==
    IF kitten_ssh
    THEN { <<a, b, c>> : a \in RunOutcomes, b \in ExecOutcomes, c \in ExecOutcomes }
    ELSE { <<a, b>> : a \in RunOutcomes, b \in ExecOutcomes }
ApplyEnvs == { <<a, b>> : a \in RunOutcomes, b \in RunOutcomes }

(***************************************************************************)
(* The pickers                                                             *)
(***************************************************************************)

MaxNotes == 1
MaxWorkers == 1
MaxRefreshWorkers == 2

\* str(n) for n >= 0
RECURSIVE str(_)
str(n) ==
    IF n < 10 THEN CharAt("0123456789", n + 1)
    ELSE str(n \div 10) \o CharAt("0123456789", (n % 10) + 1)

\* get_ssh_config_path() with SSH_CONFIG_ENV unset
ConfigPath == "/h/.ssh/config"

\* select_hosts as it would be if the matches were gathered by prepending.
RECURSIVE select_hosts_reversed(_, _)
select_hosts_reversed(list, query) ==
    IF list = <<>> THEN <<>>
    ELSE LET e == Head(list)
         IN  IF contains(lower(e[1]), query) \/ contains(lower(e[2]), query)
             THEN select_hosts_reversed(Tail(list), query) \o <<e>>
             ELSE select_hosts_reversed(Tail(list), query)

\* The list comprehension of SSHHostSelectorApp.on_input_changed.
RECURSIVE select_hosts(_, _)
select_hosts(list, query) ==
    IF list = <<>> THEN <<>>
    ELSE LET e == Head(list)
         IN  IF contains(lower(e[1]), query) \/ contains(lower(e[2]), query)
             THEN <<e>> \o select_hosts(Tail(list), query)
             ELSE select_hosts(Tail(list), query)

\* The list comprehension of ThemeSelectorApp.on_input_changed.
RECURSIVE select_themes(_, _)
select_themes(list, query) ==
    IF list = <<>> THEN <<>>
    ELSE LET e == Head(list)
         IN  IF contains(lower(e[1]), query)
             THEN <<e>> \o select_themes(Tail(list), query)
             ELSE select_themes(Tail(list), query)

\* input_query as it would be without .lower()
input_query_no_lower(value) == strip(value)

\* query = (event.value or "").strip().lower()
input_query(value) == lower(strip(value))

\* self._filtered as SSHHostSelectorApp.on_input_changed sets it.
filter_hosts(full, value) ==
    LET query == input_query(value)
    IN  IF query = "" THEN full ELSE select_hosts(full, query)

\* self._filtered as ThemeSelectorApp.on_input_changed sets it.
filter_themes(full, value) ==
    LET query == input_query(value)
    IN  IF query = "" THEN full ELSE select_themes(full, query)

\* The Labels _refresh_list builds, one per entry of self._filtered.
row_labels(list) == [i \in 1..Len(list) |-> list[i][1]]

NoWorkers == [clear |-> 0, extend |-> 0]

\* The refresh workers scheduled and not finished.
InFlight == workers.clear + workers.extend

\* What a handler that launches nothing leaves in the launch record.
NoLaunch(ev) ==
    /\ last_event' = ev
    /\ event_index' = -1
    /\ attempts' = <<>>
    /\ result' = "none"

\* Mount as it would be if ThemeSelectorApp.on_mount wrote the count to the
\* status line, as SSHHostSelectorApp.on_mount does.
Mount_theme_status ==
    /\ phase = "init"
    /\ phase' = "running"
    /\ IF app = "ssh"
       THEN /\ hosts' = parse_ssh_config(source)
            /\ filtered' = hosts'
            /\ status' = str(Len(filtered')) \o " host(s) from " \o ConfigPath
            /\ UNCHANGED themes
       ELSE /\ themes' = collect_themes(source)
            /\ filtered' = themes'
            /\ status' = str(Len(filtered')) \o " theme(s)"
            /\ UNCHANGED hosts
    /\ rendered' = row_labels(filtered')
    /\ search_display' = FALSE
    /\ NoLaunch("mount")
    /\ UNCHANGED <<app, use_kitten_ssh, source, entries, search_value, search_focus,
                   notifications, workers>>

\* on_mount of both applications.
Mount ==
    /\ phase = "init"
    /\ phase' = "running"
    /\ IF app = "ssh"
       THEN /\ hosts' = parse_ssh_config(source)
            /\ filtered' = hosts'
            /\ status' = str(Len(filtered')) \o " host(s) from " \o ConfigPath
            /\ UNCHANGED themes
       ELSE /\ themes' = collect_themes(source)
            /\ filtered' = themes'
            /\ UNCHANGED <<hosts, status>>
    /\ rendered' = row_labels(filtered')
    /\ search_display' = FALSE
    /\ NoLaunch("mount")
    /\ UNCHANGED <<app, use_kitten_ssh, source, entries, search_value, search_focus,
                   notifications, workers>>

\* action_focus_search as it would be if hiding the field cleared the filter.
action_focus_search_clears ==
    /\ phase = "running"
    /\ IF search_display
       THEN /\ search_focus' = FALSE /\ search_display' = FALSE
            /\ search_value' = ""
            /\ filtered' = IF app = "ssh" THEN hosts ELSE themes
       ELSE /\ search_display' = TRUE /\ search_focus' = TRUE
            /\ UNCHANGED <<search_value, filtered>>
    /\ NoLaunch("focus_search")
    /\ UNCHANGED <<app, use_kitten_ssh, source, phase, entries, hosts, themes,
                   status, notifications, rendered, workers>>

\* action_focus_search of both applications.
action_focus_search ==
    /\ phase = "running"
    /\ IF search_display
       THEN search_focus' = FALSE /\ search_display' = FALSE
       ELSE search_display' = TRUE /\ search_focus' = TRUE
    /\ NoLaunch("focus_search")
    /\ UNCHANGED <<app, use_kitten_ssh, source, phase, entries, hosts, themes, filtered,
                   search_value, status, notifications, rendered, workers>>

\* on_input_changed as it would be if the query were matched against the
\* entries of the current filtered view instead of the full list.
on_input_changed_narrowing(value) ==
    /\ phase = "running"
    /\ search_value' = value
    /\ IF app = "ssh"
       THEN /\ filtered' = filter_hosts(filtered, value)
            /\ status' = str(Len(filtered')) \o " host(s)"
       ELSE /\ filtered' = filter_themes(filtered, value)
            /\ status' = str(Len(filtered')) \o " theme(s)"
    /\ workers' = [workers EXCEPT !.clear = @ + 1]
    /\ NoLaunch("input_changed")
    /\ UNCHANGED <<app, use_kitten_ssh, source, phase, entries, hosts, themes,
                   search_display, search_focus, notifications, rendered>>

\* on_input_changed of both applications; value is event.value.
on_input_changed(value) ==
    /\ phase = "running"
    /\ search_value' = value
    /\ IF app = "ssh"
       THEN /\ filtered' = filter_hosts(hosts, value)
            /\ status' = str(Len(filtered')) \o " host(s)"
       ELSE /\ filtered' = filter_themes(themes, value)
            /\ status' = str(Len(filtered')) \o " theme(s)"
    /\ workers' = [workers EXCEPT !.clear = @ + 1]
    /\ NoLaunch("input_changed")
    /\ UNCHANGED <<app, use_kitten_ssh, source, phase, entries, hosts, themes,
                   search_display, search_focus, notifications, rendered>>

\* _refresh_list up to its first await: lv.clear().
refresh_clear ==
    /\ phase = "running"
    /\ workers.clear > 0
    /\ rendered' = <<>>
    /\ workers' = [clear |-> workers.clear - 1, extend |-> workers.extend + 1]
    /\ NoLaunch("refresh")
    /\ UNCHANGED <<app, use_kitten_ssh, source, phase, entries, hosts, themes, filtered,
                   search_display, search_value, search_focus, status, notifications>>

\* _refresh_list after the first await: lv.extend(...) of the filtered view of now.
refresh_extend ==
    /\ phase = "running"
    /\ workers.extend > 0
    /\ rendered' = rendered \o row_labels(filtered)
    /\ workers' = [workers EXCEPT !.extend = @ - 1]
    /\ NoLaunch("refresh")
    /\ UNCHANGED <<app, use_kitten_ssh, source, phase, entries, hosts, themes, filtered,
                   search_display, search_value, search_focus, status, notifications>>

\* ssh_selected as it would be without self.exit()
ssh_selected_no_exit(e, run) ==
    /\ attempts' = run.attempts
    /\ result' = run.ret
    /\ IF run.ret = "True"
       THEN /\ notifications' =
                Append(notifications,
                       Note("Connecting to " \o e[1] \o "...", "information"))
            /\ UNCHANGED phase
       ELSE IF run.ret = "False"
       THEN /\ notifications' =
                Append(notifications,
                       Note("Could not run kitten ssh or ssh (not in PATH)", "error"))
            /\ UNCHANGED phase
       ELSE /\ phase' = IF run.ret = "replaced" THEN "replaced" ELSE "crashed"
            /\ UNCHANGED notifications
    /\ UNCHANGED status

\* SSHHostSelectorApp.on_list_view_selected after the index check; run is what
\* self._connect(host_alias, theme) did for the entry e.
ssh_selected(e, run) ==
    /\ attempts' = run.attempts
    /\ result' = run.ret
    /\ IF run.ret = "True"
       THEN /\ notifications' =
                Append(notifications,
                       Note("Connecting to " \o e[1] \o "...", "information"))
            /\ phase' = "exited"
       ELSE IF run.ret = "False"
       THEN /\ notifications' =
                Append(notifications,
                       Note("Could not run kitten ssh or ssh (not in PATH)", "error"))
            /\ UNCHANGED phase
       ELSE /\ phase' = IF run.ret = "replaced" THEN "replaced" ELSE "crashed"
            /\ UNCHANGED notifications
    /\ UNCHANGED status

\* ThemeSelectorApp.on_list_view_selected after the index check; run is what
\* self._apply_theme(path, display) did for the entry e.
theme_selected(e, run) ==
    /\ attempts' = run.attempts
    /\ result' = run.ret
    /\ IF run.ret = "True"
       THEN /\ notifications' =
                Append(notifications, Note("Applied: " \o e[1], "information"))
            /\ status' = "Current: " \o e[1]
            /\ UNCHANGED phase
       ELSE IF run.ret = "False"
       THEN /\ notifications' = notifications \o run.notes
            /\ UNCHANGED <<phase, status>>
       ELSE /\ phase' = "crashed"
            /\ UNCHANGED <<notifications, status>>

\* selected_out_of_range as it would be if an index outside the filtered view
\* were reported to the user.
selected_out_of_range_notifies ==
    /\ attempts' = <<>>
    /\ result' = "none"
    /\ notifications' = Append(notifications, Note("No such entry", "error"))
    /\ UNCHANGED <<phase, status>>

\* on_list_view_selected when idx is outside self._filtered: return.
selected_out_of_range ==
    /\ attempts' = <<>>
    /\ result' = "none"
    /\ UNCHANGED <<phase, notifications, status>>

\* The runs the launcher can make for the entry e, over every environment.
launcher_runs(e) ==
    IF app = "ssh"
    THEN { _connect(use_kitten_ssh, e[2], e[3], env) : env \in ConnectEnvs(use_kitten_ssh) }
    ELSE { _apply_theme(e[2], e[1], env) : env \in ApplyEnvs }

\* on_list_view_selected of both applications; idx is event.index.
on_list_view_selected(idx) ==
    /\ phase = "running"
    /\ Len(notifications) < MaxNotes
    /\ IF idx < 0 \/ idx >= Len(filtered)
       THEN selected_out_of_range
       ELSE LET e == filtered[idx + 1]
            IN  \E run \in launcher_runs(e) :
                    IF app = "ssh" THEN ssh_selected(e, run) ELSE theme_selected(e, run)
    /\ last_event' = "list_view_selected"
    /\ event_index' = idx
    /\ UNCHANGED <<app, use_kitten_ssh, source, entries, hosts, themes, filtered,
                   search_display, search_value, search_focus, rendered, workers>>

\* Binding("q", "quit"): App.action_quit leaves the application.
action_quit ==
    /\ phase = "running"
    /\ phase' = "exited"
    /\ NoLaunch("quit")
    /\ UNCHANGED <<app, use_kitten_ssh, source, entries, hosts, themes, filtered,
                   search_display, search_value, search_focus, status, notifications,
                   rendered, workers>>

\* A notification's timeout passes: the oldest one leaves the screen.
notification_timeout ==
    /\ phase = "running"
    /\ notifications # <<>>
    /\ notifications' = Tail(notifications)
    /\ NoLaunch("notification_timeout")
    /\ UNCHANGED <<app, use_kitten_ssh, source, phase, entries, hosts, themes, filtered,
                   search_display, search_value, search_focus, status, rendered, workers>>

(***************************************************************************)
(* Inputs of the pickers                                                   *)
(***************************************************************************)

\* Configuration files the SSH picker is started on.
PickerConfigs ==
    { [kind |-> "missing"],
      [kind |-> "unreadable"],
      [kind |-> "file", text |-> ""],
      [kind |-> "file", text |-> "Host a b\n  User r\n# kitty theme: d\nHost *\n"],
      [kind |-> "file", text |-> "Host a b\nHOST b * A\n"] }

\* Theme directories the theme picker is started on.
PickerThemeDirs ==
    { [kind |-> "nodir"],
      [kind |-> "dir", files |-> {}],
      [kind |-> "dir", files |-> { ConfigDir \o <<"one.conf">>,
                                    ConfigDir \o <<"a", "one.conf">>,
                                    ConfigDir \o <<"b", "two.conf">> }],
      [kind |-> "dir", files |-> { ConfigDir \o <<"Dark.conf">>,
                                    ConfigDir \o <<"dark.conf">> }] }

\* Texts typed into the filter field.
FilterTexts == { "", " ", "A ", "B", "/t" }

\* The state of an application object after __init__ and compose.
Constructed ==
    /\ phase = "init"
    /\ entries = <<>>
    /\ hosts = <<>>
    /\ themes = <<>>
    /\ filtered = <<>>
    /\ search_display = TRUE
    /\ search_value = ""
    /\ search_focus = FALSE
    /\ status = ""
    /\ notifications = <<>>
    /\ rendered = <<>>
    /\ workers = NoWorkers
    /\ last_event = "init"
    /\ event_index = -1
    /\ attempts = <<>>
    /\ result = "none"

Init ==
    /\ \/ app = "ssh" /\ use_kitten_ssh \in BOOLEAN /\ source \in PickerConfigs
       \/ app = "theme" /\ use_kitten_ssh = FALSE /\ source \in PickerThemeDirs
    /\ Constructed

Next ==
    \/ Mount
    \/ action_focus_search
    \/ \E value \in FilterTexts : InFlight < MaxWorkers /\ on_input_changed(value)
    \/ refresh_clear
    \/ refresh_extend
    \/ \E idx \in -1..Len(filtered) : on_list_view_selected(idx)
    \/ action_quit
    \/ notification_timeout

Spec == Init /\ [][Next]_vars

\* The pickers with refresh workers that overlap: a filter-text change is
\* handled while the worker of an earlier one has not finished.
NextRefresh ==
    \/ Mount
    \/ action_focus_search
    \/ \E value \in FilterTexts : InFlight < MaxRefreshWorkers /\ on_input_changed(value)
    \/ refresh_clear
    \/ refresh_extend
    \/ \E idx \in -1..Len(filtered) : on_list_view_selected(idx)
    \/ action_quit
    \/ notification_timeout

SpecRefresh == Init /\ [][NextRefresh]_vars

(***************************************************************************)
(* The parsers on their own: every configuration text and theme directory  *)
(* of the bounded input sets is parsed, parse_ssh_config in its two parts  *)
(* (the loop that collects the candidates, then dedupe and sort).          *)
(***************************************************************************)

InitParse ==
    /\ \/ app = "ssh" /\ source \in ConfigSources
       \/ app = "theme" /\ source \in ThemeSources
    /\ use_kitten_ssh = FALSE
    /\ Constructed

PickerUnchanged ==
    UNCHANGED <<app, use_kitten_ssh, source, filtered, search_display, search_value,
                search_focus, status, notifications, rendered, workers, last_event,
                event_index, attempts, result>>

\* parse_ssh_config when config_path is no file or cannot be read.
parse_unavailable ==
    /\ phase = "init" /\ app = "ssh" /\ source.kind # "file"
    /\ hosts' = <<>>
    /\ phase' = "parsed"
    /\ PickerUnchanged /\ UNCHANGED <<entries, themes>>

\* parse_ssh_config up to the flush of the last block.
parse_blocks ==
    /\ phase = "init" /\ app = "ssh" /\ source.kind = "file"
    /\ entries' = parse_entries(source.text)
    /\ phase' = "collected"
    /\ PickerUnchanged /\ UNCHANGED <<hosts, themes>>

\* parse_ssh_config from the dedupe to the return.
parse_finish ==
    /\ phase = "collected"
    /\ hosts' = unique_sorted(entries)
    /\ phase' = "parsed"
    /\ PickerUnchanged /\ UNCHANGED <<entries, themes>>

\* collect_themes(config_dir)
collect ==
    /\ phase = "init" /\ app = "theme"
    /\ themes' = collect_themes(source)
    /\ phase' = "parsed"
    /\ PickerUnchanged /\ UNCHANGED <<entries, hosts>>

NextParse == parse_unavailable \/ parse_blocks \/ parse_finish \/ collect

SpecParse == InitParse /\ [][NextParse]_vars

(***************************************************************************)
(* Properties of the parsers, checked under SpecParse                      *)
(***************************************************************************)

Last(seq) == seq[Len(seq)]

\* C8: the list parse_ssh_config returns holds no alias twice, every alias of a
\* candidate survives, and the entry that survives for an alias is the first
\* candidate, in file order, that carries it (display and theme of that block).
C8_DedupeKeepsFirst ==
    (phase = "parsed" /\ app = "ssh") =>
        /\ \A i, j \in 1..Len(hosts) : i # j => hosts[i][2] # hosts[j][2]
        /\ \A i \in 1..Len(hosts) :
              \E k \in 1..Len(entries) :
                  /\ entries[k] = hosts[i]
                  /\ \A m \in 1..(k - 1) : entries[m][2] # hosts[i][2]
        /\ \A k \in 1..Len(entries) :
              \E i \in 1..Len(hosts) : hosts[i][2] = entries[k][2]

\* Two blocks declared the same alias with different attributes, and the
\* parse is done.
C8_Witness ==
    /\ phase = "parsed" /\ app = "ssh"
    /\ \E k, m \in 1..Len(entries) :
          k < m /\ entries[k][2] = entries[m][2] /\ entries[k] # entries[m]

\* list is in the order of (label compared case-insensitively, then key).
SortedByLabelThenKey(list, Key(_)) ==
    \A i, j \in 1..Len(list) :
        i < j =>
            /\ ~StrLess(lower(list[j][1]), lower(list[i][1]))
            /\ lower(list[i][1]) = lower(list[j][1]) => StrLess(Key(list[i]), Key(list[j]))

HostKey(e) == e[2]
ThemeKey(e) == path_str(e[2])

\* C9: the full list of either variant is sorted by display label compared
\* case-insensitively, and entries whose labels are equal that way are in
\* ascending order of their target key (host alias, or the path as a string).
C9_SortedByLabelThenKey ==
    phase = "parsed" =>
        /\ SortedByLabelThenKey(hosts, HostKey)
        /\ SortedByLabelThenKey(themes, ThemeKey)

\* Two hosts with labels equal case-insensitively were declared in descending
\* order of alias, and the parse is done.
C9_Witness ==
    /\ phase = "parsed" /\ app = "ssh"
    /\ \E k, m \in 1..Len(entries) :
          /\ k < m
          /\ lower(entries[k][1]) = lower(entries[m][1])
          /\ StrLess(entries[m][2], entries[k][2])
    /\ \E i \in 1..(Len(hosts) - 1) : lower(hosts[i][1]) = lower(hosts[i + 1][1])

\* A header line: the block keyword, case-insensitively, followed by whitespace.
IsHostHeader(raw_line) ==
    LET l == lower(strip(raw_line))
    IN  Len(l) > 4 /\ SubSeq(l, 1, 4) = "host" /\ IsSpace(CharAt(l, 5))

\* The identifiers on a header line.
HeaderIds(raw_line) ==
    LET l == strip(raw_line) IN split(SubSeq(l, 5, Len(l)))

\* The User directive of a line: its value, None when the line is none.
UserOf(raw_line) ==
    LET kv == split1(strip(raw_line))
    IN  IF Len(kv) >= 2 /\ lower(kv[1]) = "user" THEN strip(kv[2]) ELSE None

\* The 'kitty theme' directive of a comment line: what follows the keyword and
\* its separator, trimmed; None when the line carries no such directive.
ThemeOf(raw_line) ==
    LET l == strip(raw_line)
        rest == IF l # "" THEN strip(SubSeq(l, 2, Len(l))) ELSE ""
    IN  IF /\ startswith(l, "#")
           /\ Len(rest) >= 12
           /\ lower(SubSeq(rest, 1, 11)) = "kitty theme"
           /\ CharAt(rest, 12) \in {":", "="}
        THEN strip(SubSeq(rest, 13, Len(rest)))
        ELSE None

\* The lines of the block whose header is line h: up to the next header.
BlockLines(lines, h) ==
    { m \in (h + 1)..Len(lines) : \A n \in (h + 1)..m : ~IsHostHeader(lines[n]) }

\* The identifiers other than "*" of a header line, as <<header line, identifier>>.
RECURSIVE HeaderSlots(_, _)
HeaderSlots(h, ids) ==
    IF ids = <<>> THEN <<>>
    ELSE (IF Head(ids) # "*" THEN << <<h, Head(ids)>> >> ELSE <<>>) \o
         HeaderSlots(h, Tail(ids))

\* Every non-wildcard identifier of every header from line h on, in file order.
RECURSIVE Slots(_, _)
Slots(lines, h) ==
    IF h > Len(lines) THEN <<>>
    ELSE (IF IsHostHeader(lines[h]) THEN HeaderSlots(h, HeaderIds(lines[h])) ELSE <<>>) \o
         Slots(lines, h + 1)

\* e is the candidate the block of slot owes to its identifier.
CandidateOf(lines, slot, e) ==
    LET block == BlockLines(lines, slot[1])
        users == { UserOf(lines[m]) : m \in block } \ {None}
        kitty == { ThemeOf(lines[m]) : m \in block } \ {None}
    IN  /\ e[2] = slot[2]
        /\ IF users = {} THEN e[1] = slot[2]
           ELSE \E u \in users : e[1] = u \o "@" \o slot[2]
        /\ IF kitty = {} THEN e[3] = None ELSE e[3] \in kitty

\* C10: every non-wildcard identifier of every Host header yields one candidate,
\* in file order: its key is the identifier, its label user@identifier when the
\* block has a User directive and the identifier otherwise, its metadata the
\* value of the block's 'kitty theme' directive (absent without one); user and
\* metadata come from the identifier's own block only.
C10_BlockCandidates ==
    phase = "collected" =>
        LET lines == splitlines(source.text)
            slots == Slots(lines, 1)
        IN  /\ Len(entries) = Len(slots)
            /\ \A k \in 1..Len(slots) : CandidateOf(lines, slots[k], entries[k])

\* The identifiers other than "*" of the header lines that name "*" too.
BesideWildcard(lines) ==
    UNION { { HeaderIds(lines[h])[n] : n \in 1..Len(HeaderIds(lines[h])) } \ {"*"} :
            h \in { m \in 1..Len(lines) :
                      /\ IsHostHeader(lines[m])
                      /\ \E n \in 1..Len(HeaderIds(lines[m])) : HeaderIds(lines[m])[n] = "*" } }

\* C11: no candidate and no returned entry has the key "*", in whichever block
\* and beside whichever identifiers the wildcard stands, and every other
\* identifier of a header line that names "*" is emitted: it is the key of a
\* candidate, and of an entry of the returned list.
C11_WildcardNeverEmitted ==
    /\ \A k \in 1..Len(entries) : entries[k][2] # "*"
    /\ \A i \in 1..Len(hosts) : hosts[i][2] # "*"
    /\ (app = "ssh" /\ phase \in {"collected", "parsed"} /\ source.kind = "file") =>
          \A id \in BesideWildcard(splitlines(source.text)) :
              /\ \E k \in 1..Len(entries) : entries[k][2] = id
              /\ phase = "parsed" => \E i \in 1..Len(hosts) : hosts[i][2] = id

\* The label of a file: its path relative to the root with the extension
\* stripped, the bare stem for a file directly in the root.
RelativeLabel(path) ==
    LET rel == SubSeq(path, Len(ConfigDir) + 1, Len(path))
    IN  IF Len(rel) = 1 THEN path_stem(path)
        ELSE join_parts(SubSeq(rel, 1, Len(rel) - 1)) \o "/" \o path_stem(path)

\* p comes before q in the traversal: at the first component where they
\* differ p has the smaller one, or p is a proper prefix of q.
TraversedBefore(p, q) ==
    \E k \in 1..Len(q) :
        /\ k <= Len(p) + 1
        /\ \A n \in 1..(k - 1) : p[n] = q[n]
        /\ IF k > Len(p) THEN TRUE ELSE p[k] # q[k] /\ StrLess(p[k], q[k])

\* C14: collect_themes returns one entry for every stem found in the tree and
\* no two entries with the same stem; the entry of a stem is the file that
\* comes first among the files of that stem in the traversal order (paths
\* compared component by component), and its label is that file's relative
\* path without the extension.
C14_FirstFileOfStemWins ==
    (phase = "parsed" /\ app = "theme" /\ source.kind = "dir") =>
        /\ \A i, j \in 1..Len(themes) :
              i # j => path_stem(themes[i][2]) # path_stem(themes[j][2])
        /\ \A f \in source.files :
              \E i \in 1..Len(themes) : path_stem(themes[i][2]) = path_stem(f)
        /\ \A i \in 1..Len(themes) :
              /\ themes[i][2] \in source.files
              /\ \A f \in source.files \ {themes[i][2]} :
                    path_stem(f) = path_stem(themes[i][2]) =>
                        TraversedBefore(themes[i][2], f)
              /\ themes[i][1] = RelativeLabel(themes[i][2])

\* Two files of one stem lie in directories that the component order and the
\* order of the serialized paths rank differently, and the collection is done.
C14_Witness ==
    /\ phase = "parsed" /\ app = "theme" /\ source.kind = "dir"
    /\ \E f, g \in source.files :
          /\ path_stem(f) = path_stem(g)
          /\ TraversedBefore(f, g)
          /\ StrLess(path_str(g), path_str(f))
          /\ \E i \in 1..Len(themes) : themes[i][2] = f

\* The values the 'kitty theme' directives of the lines carry.
ThemeValues(lines) == { ThemeOf(lines[m]) : m \in 1..Len(lines) } \ {None}

\* C19: the metadata of every candidate is absent or the value of a 'kitty
\* theme' directive of the text, taken verbatim after the separator that
\* follows the keyword and trimmed (a value empty after trimming sets none);
\* and a directive with a value on the line after a header is the metadata of
\* that header's candidates.
C19_DirectiveValueVerbatim ==
    phase = "collected" =>
        LET lines == splitlines(source.text)
            n == Len(lines)
        IN  /\ \A k \in 1..Len(entries) :
                  entries[k][3] \in ThemeValues(lines) \cup {None}
            /\ (/\ n >= 2
                /\ IsHostHeader(lines[n - 1])
                /\ HeaderSlots(n - 1, HeaderIds(lines[n - 1])) # <<>>
                /\ ThemeOf(lines[n]) # None) =>
                   /\ entries # <<>>
                   /\ Last(entries)[3] = ThemeOf(lines[n])

(***************************************************************************)
(* Properties of the pickers, checked under Spec                           *)
(***************************************************************************)

\* The full entry list of the running application.
Full == IF app = "ssh" THEN hosts ELSE themes

\* e has a searchable field that contains q case-insensitively.
Matches(e, q) ==
    \/ contains(lower(e[1]), lower(q))
    \/ app = "ssh" /\ contains(lower(e[2]), lower(q))

\* The entries of the full list that match q, in the order of the full list.
MatchesOf(q) == LET Test(e) == Matches(e, q) IN SelectSeq(Full, Test)

\* C1 as stated: after a filter-text change carrying q, the filtered view is
\* the subsequence of the full list of the entries whose searchable fields
\* contain q case-insensitively.
C1_FilterMatchesText ==
    last_event = "input_changed" => filtered = MatchesOf(search_value)

\* C1 amended: after a filter-text change carrying q, the filtered view is the
\* subsequence of the full list of the entries whose searchable fields contain,
\* case-insensitively, q without its leading and trailing whitespace; the full
\* list when nothing is left of q.
C1_FilterMatchesStrippedText ==
    last_event = "input_changed" => filtered = MatchesOf(strip(search_value))

\* A text with whitespace around it was typed and keeps a part of the list.
C1_Witness ==
    /\ last_event = "input_changed"
    /\ strip(search_value) # search_value
    /\ strip(search_value) # ""
    /\ filtered # <<>>
    /\ filtered # Full

\* s is t with some elements left out.
RECURSIVE IsSubsequence(_, _)
IsSubsequence(s, t) ==
    IF s = <<>> THEN TRUE
    ELSE IF t = <<>> THEN FALSE
    ELSE IF Head(s) = Head(t) THEN IsSubsequence(Tail(s), Tail(t))
    ELSE IsSubsequence(s, Tail(t))

\* C2: from mount on, the filtered view is a subsequence of the full list in
\* the full list's order, and the full list is the one built at mount from
\* the configuration source.
C2_FilteredIsSubsequenceOfFull ==
    phase # "init" =>
        /\ IsSubsequence(filtered, Full)
        /\ hosts = (IF app = "ssh" THEN parse_ssh_config(source) ELSE <<>>)
        /\ themes = (IF app = "theme" THEN collect_themes(source) ELSE <<>>)

\* A launch failed while a filter that keeps several entries, not all, was on.
C2_Witness ==
    /\ last_event = "list_view_selected"
    /\ result = "False"
    /\ Len(filtered) > 1
    /\ filtered # Full

\* The strategy a call of the connect launcher is.
StrategyOf(call) ==
    IF call.fn = "subprocess.run" /\ SubSeq(call.argv, 1, 3) = <<"kitten", "@", "launch">>
    THEN "new tab"
    ELSE IF call.fn = "os.execvp" /\ SubSeq(call.argv, 1, 2) = <<"kitten", "ssh">>
    THEN "replace with kitten ssh"
    ELSE IF call.fn = "os.execvp" /\ call.argv[1] = "ssh"
    THEN "replace with ssh"
    ELSE "other"

ConnectChain ==
    IF use_kitten_ssh
    THEN <<"new tab", "replace with kitten ssh", "replace with ssh">>
    ELSE <<"new tab", "replace with ssh">>

\* The failures a strategy recovers from by going on, and the successes.
RecoveredFailures == {"FileNotFoundError", "TimeoutExpired", "nonzero"}
Successes == {"exit0", "replaced"}

\* C3: the connect launcher attempts its strategies in the order of the chain;
\* a strategy is attempted only when every earlier one failed (not found,
\* timed out, non-zero exit), each such failure but the last strategy's is
\* followed by the next strategy, and nothing is attempted after a success.
C3_ConnectChainInOrder ==
    (app = "ssh" /\ last_event = "list_view_selected" /\ attempts # <<>>) =>
        /\ Len(attempts) <= Len(ConnectChain)
        /\ \A k \in 1..Len(attempts) : StrategyOf(attempts[k]) = ConnectChain[k]
        /\ \A k \in 1..(Len(attempts) - 1) : attempts[k].outcome \in RecoveredFailures
        /\ \A k \in 1..Len(attempts) :
              (attempts[k].outcome \in RecoveredFailures /\ k < Len(ConnectChain))
                  => Len(attempts) > k
        /\ \A k \in 1..Len(attempts) :
              attempts[k].outcome \in Successes => k = Len(attempts)

\* The new-tab launch timed out, kitten was not found, and ssh took over.
C3_Witness ==
    /\ app = "ssh" /\ use_kitten_ssh /\ last_event = "list_view_selected"
    /\ Len(attempts) = 3
    /\ attempts[1].outcome = "TimeoutExpired"
    /\ attempts[2].outcome = "FileNotFoundError"
    /\ attempts[3].outcome = "replaced"

\* C4 as stated: in both pickers a launch that reports Success shows a
\* confirmation and the picker exits.
C4_SuccessExits ==
    (last_event = "list_view_selected" /\ result = "True") =>
        /\ notifications # <<>>
        /\ Last(notifications).severity = "information"
        /\ phase = "exited"

\* C4 amended: a launch that reports Success shows a confirmation; the SSH
\* picker then exits, the theme picker shows the applied theme in its status
\* line and stays interactive.
C4_SuccessConfirmsSshExits ==
    (last_event = "list_view_selected" /\ result = "True") =>
        /\ notifications # <<>>
        /\ Last(notifications).severity = "information"
        /\ app = "ssh" => phase = "exited"
        /\ app = "theme" =>
              /\ phase = "running"
              /\ \E i \in 1..Len(filtered) :
                    /\ Last(notifications).message = "Applied: " \o filtered[i][1]
                    /\ status = "Current: " \o filtered[i][1]

\* The SSH picker opened its tab and left.
C4_Witness ==
    /\ app = "ssh" /\ last_event = "list_view_selected" /\ result = "True"
    /\ phase = "exited"

\* Every strategy of the launcher's chain was attempted and none succeeded.
AllStrategiesFailed ==
    /\ Len(attempts) = (IF app = "ssh" THEN Len(ConnectChain) ELSE 2)
    /\ \A k \in 1..Len(attempts) : attempts[k].outcome \notin Successes

\* C5: a selection on which every launch strategy fails shows an error
\* notification, leaves the picker running, and changes neither the full list,
\* the filtered view, the filter text nor the visibility of the filter field.
C5_FailedLaunchKeepsPicker ==
    [][(last_event' = "list_view_selected" /\ AllStrategiesFailed') =>
           /\ phase' = "running"
           /\ notifications' # notifications
           /\ Last(notifications').severity = "error"
           /\ UNCHANGED <<hosts, themes, filtered, search_value, search_display>>]_vars

\* C6: whatever the outcome of an external invocation, the launcher returns
\* to the selection handler or goes on to the next strategy: no exception
\* leaves the launcher.
C6_NoFaultLeavesLauncher ==
    result # "raised" /\ phase # "crashed"

\* C7 as stated: when the first program of theme-apply did not succeed (not
\* found, non-zero exit, or timed out) the second is attempted, and the
\* timeout message is shown only for a timeout that ends the chain.
C7_ThemeSecondTriedAfterAnyFailure ==
    (app = "theme" /\ last_event = "list_view_selected" /\ attempts # <<>>) =>
        /\ attempts[1].argv[1] = "kitten"
        /\ attempts[1].outcome \in RecoveredFailures =>
              Len(attempts) = 2 /\ attempts[2].argv[1] = "kitty"
        /\ (notifications # <<>> /\ Last(notifications) = TimeoutNote) =>
              Last(attempts).outcome = "TimeoutExpired"

\* C7 amended: theme-apply tries 'kitten', then 'kitty'; the second is attempted
\* when the first was not found or exited non-zero; a timeout of either attempt
\* ends the chain at once with Failure, and the timeout message is shown when,
\* and only when, the last attempt made timed out.
C7_ThemeTimeoutEndsChain ==
    (app = "theme" /\ last_event = "list_view_selected" /\ attempts # <<>>) =>
        /\ Len(attempts) <= 2
        /\ attempts[1].argv[1] = "kitten"
        /\ Len(attempts) = 2 <=> attempts[1].outcome \in {"FileNotFoundError", "nonzero"}
        /\ Len(attempts) = 2 => attempts[2].argv[1] = "kitty"
        /\ Last(attempts).outcome = "TimeoutExpired" =>
              /\ result = "False"
              /\ notifications # <<>> /\ Last(notifications) = TimeoutNote
        /\ (result = "False" /\ Last(attempts).outcome # "TimeoutExpired") =>
              /\ notifications # <<>> /\ Last(notifications) # TimeoutNote

\* 'kitten' timed out and 'kitty' was not tried.
C7_Witness ==
    /\ app = "theme" /\ last_event = "list_view_selected"
    /\ Len(attempts) = 1
    /\ attempts[1].outcome = "TimeoutExpired"
    /\ notifications # <<>> /\ Last(notifications) = TimeoutNote

\* The configuration source is missing, unreadable or empty.
SourceEmpty ==
    \/ source.kind \in {"missing", "unreadable", "nodir"}
    \/ source.kind = "file" /\ source.text = ""
    \/ source.kind = "dir" /\ source.files = {}

\* The picker was mounted and is interactive: nothing but the quit key ended it.
StaysInteractive ==
    phase = "running" \/ (phase = "exited" /\ last_event = "quit")

\* C12 as stated: on a missing, unreadable or empty source the picker mounts
\* with an empty full list, filtered view and list widget, the status line
\* shows a count of 0, and the picker stays interactive.
C12_EmptySourceShowsZero ==
    (SourceEmpty /\ phase # "init") =>
        /\ hosts = <<>> /\ themes = <<>> /\ filtered = <<>> /\ rendered = <<>>
        /\ startswith(status, "0 ")
        /\ StaysInteractive

\* C12 amended: on a missing, unreadable or empty source the picker mounts
\* with an empty full list, filtered view and list widget and stays
\* interactive; the SSH picker's status line shows a count of 0 from mount on,
\* the theme picker's status line is empty after mount and shows a count of 0
\* once the filter text has changed.
C12_EmptySourceMountsEmpty ==
    (SourceEmpty /\ phase # "init") =>
        /\ hosts = <<>> /\ themes = <<>> /\ filtered = <<>> /\ rendered = <<>>
        /\ app = "ssh" => startswith(status, "0 host(s)")
        /\ app = "theme" =>
              /\ status \in {"", "0 theme(s)"}
              /\ last_event = "mount" => status = ""
              /\ last_event = "input_changed" => status = "0 theme(s)"
        /\ StaysInteractive

\* The theme picker was mounted on a missing directory and handled a selection
\* event; its status line is still empty.
C12_Witness ==
    /\ app = "theme" /\ source.kind = "nodir"
    /\ phase = "running" /\ last_event = "list_view_selected"
    /\ status = ""

\* argv carries the option that names the color scheme theme.
HasColorOption(argv, theme) ==
    \E n \in 1..(Len(argv) - 1) :
        argv[n] = "--kitten" /\ argv[n + 1] = "color_scheme=" \o theme

\* argv carries a color-scheme option, whatever the scheme.
HasAnyColorOption(argv) ==
    \E n \in 1..Len(argv) : argv[n] = "--kitten" \/ startswith(argv[n], "color_scheme=")

\* argv runs the wrapper 'kitten ssh' (directly, or in the tab it opens).
RunsKittenSsh(argv) ==
    \E n \in 1..(Len(argv) - 1) : argv[n] = "kitten" /\ argv[n + 1] = "ssh"

\* The entry a selection at event_index resolved to.
SelectedEntry == filtered[event_index + 1]

\* C13 as stated: every command the connect launcher attempts for an entry
\* ends with the entry's key; it carries the option naming the entry's color
\* scheme when the entry has one, and no such option when it has none.
C13_EveryCommandNamesTheme ==
    (app = "ssh" /\ last_event = "list_view_selected" /\ attempts # <<>>) =>
        \A k \in 1..Len(attempts) :
            /\ Last(attempts[k].argv) = SelectedEntry[2]
            /\ IF SelectedEntry[3] # None
               THEN HasColorOption(attempts[k].argv, SelectedEntry[3])
               ELSE ~HasAnyColorOption(attempts[k].argv)

\* C13 amended: every command the connect launcher attempts for an entry ends
\* with the entry's key; the option naming the entry's color scheme is carried
\* by exactly the commands that run 'kitten ssh' for an entry that has a
\* scheme; the commands that run plain 'ssh' (the last fallback, and both
\* commands of the plain mode) carry no color-scheme option.
C13_KittenSshCommandsNameTheme ==
    (app = "ssh" /\ last_event = "list_view_selected" /\ attempts # <<>>) =>
        \A k \in 1..Len(attempts) :
            /\ Last(attempts[k].argv) = SelectedEntry[2]
            /\ RunsKittenSsh(attempts[k].argv) <=>
                   (use_kitten_ssh /\ StrategyOf(attempts[k]) # "replace with ssh")
            /\ IF SelectedEntry[3] # None /\ RunsKittenSsh(attempts[k].argv)
               THEN HasColorOption(attempts[k].argv, SelectedEntry[3])
               ELSE ~HasAnyColorOption(attempts[k].argv)

\* An entry with a color scheme was selected in the 'kitten ssh' mode and the
\* chain went down to plain ssh.
C13_Witness ==
    /\ app = "ssh" /\ use_kitten_ssh /\ last_event = "list_view_selected"
    /\ Len(attempts) = 3
    /\ SelectedEntry[3] # None
    /\ HasColorOption(attempts[2].argv, SelectedEntry[3])

(***************************************************************************)
(* Properties of the list refresh, checked under SpecRefresh               *)
(***************************************************************************)

\* C15: when every scheduled refresh has completed, the list widget shows the
\* labels of the filtered view of the latest filter text, in order, no row
\* twice and none missing.
C15_QuiescentRenderShowsFiltered ==
    (phase = "running" /\ workers = NoWorkers) => rendered = row_labels(filtered)

\* C16: a selection on a row of the list widget that causes a launch passes
\* to the launcher the entry whose label that row shows, also while a refresh
\* is scheduled and not completed.
C16_LaunchedEntryIsRenderedRow ==
    (/\ last_event = "list_view_selected"
     /\ attempts # <<>>
     /\ event_index < Len(rendered)) =>
        /\ rendered[event_index + 1] = SelectedEntry[1]
        /\ Last(attempts[1].argv) =
              (IF app = "ssh" THEN SelectedEntry[2] ELSE path_str(SelectedEntry[2]))

(***************************************************************************)
(* Properties of the selection, the filter key and the filter text,        *)
(* checked under Spec                                                      *)
(***************************************************************************)

\* C17: a selection whose index is negative or not less than the length of
\* the filtered view attempts no launch, shows no notification, does not end
\* the picker and changes nothing of its state.
C17_OutOfRangeSelectionIsNoOp ==
    [][(/\ last_event' = "list_view_selected"
        /\ (event_index' < 0 \/ event_index' >= Len(filtered))) =>
           /\ attempts' = <<>> /\ result' = "none"
           /\ UNCHANGED <<phase, notifications, status, hosts, themes, filtered,
                          search_display, search_value, search_focus, rendered,
                          workers>>]_vars

\* A row left over from the view before the last filter-text change was
\* selected: its index is past the end of the filtered view.
C17_Witness ==
    /\ last_event = "list_view_selected"
    /\ event_index = Len(filtered) /\ event_index < Len(rendered)
    /\ filtered # <<>>
    /\ phase = "running" /\ attempts = <<>>

\* C18: after mount the filter field is hidden; the filter key shows and
\* focuses a hidden field and hides and blurs a shown one; either way it
\* leaves the filter text, the full list and the filtered view as they were,
\* so the filtered view is still the one of the last filter text.
C18_ToggleKeepsFilter ==
    [][/\ last_event' = "mount" => (~search_display' /\ ~search_focus')
       /\ last_event' = "focus_search" =>
              /\ search_display' = ~search_display
              /\ search_focus' = search_display'
              /\ UNCHANGED <<search_value, filtered, hosts, themes>>
              /\ filtered' = MatchesOf(strip(search_value'))]_vars

\* The field was hidden again while a filter that keeps a part of the list
\* is on.
C18_Witness ==
    /\ last_event = "focus_search" /\ ~search_display /\ ~search_focus
    /\ strip(search_value) # ""
    /\ filtered # <<>> /\ filtered # Full

\* The filtered view a single filter-text change to q right after mount gives.
FilteredAfterMount(q) ==
    IF app = "ssh" THEN filter_hosts(parse_ssh_config(source), q)
    ELSE filter_themes(collect_themes(source), q)

\* C20: after a filter-text change to q, whatever changes came before, the
\* filtered view is the one a single change to q right after mount gives; a
\* change to the text of the change before leaves the filtered view as it was.
C20_FilterHasNoMemory ==
    [][last_event' = "input_changed" =>
           /\ filtered' = FilteredAfterMount(search_value')
           /\ (last_event = "input_changed" /\ search_value' = search_value) =>
                  filtered' = filtered]_vars

\* The list widget shows the narrower view of an earlier filter text, and the
\* filter text was changed to one that keeps more of the list.
C20_Witness ==
    /\ last_event = "input_changed"
    /\ rendered # <<>> /\ Len(rendered) < Len(filtered)
    /\ strip(search_value) # "" /\ filtered # Full

====
